---- MODULE Spec2Model ----
(***************************************************************************)
(* Event store of src/app.py: the in-memory list `events`, the backing     *)
(* file events.json, and the four request handlers with load/save.         *)
(***************************************************************************)
EXTENDS Integers, Sequences, FiniteSets, TLC

VARIABLES events, file, nextId, last, committed, requests, threads

vars == <<events, file, nextId, last, committed, requests, threads>>

(* ---------------------------- bounds ----------------------------------- *)

\* Instants are 0..MaxTime (hours of one day).
MaxTime == 2
\* uuid4 values handed out in one run are 1..MaxIds.
MaxIds == 2
\* Requests (and restarts) handled in one run.
MaxRequests == 3

(* ------------------------ JSON / Python values ------------------------- *)

\* Every value has the same shape: ty is the Python type, s the text of a
\* str, (aware, t) the instant of a datetime or of an ISO-8601 text.
Val(ty, s, aware, t) == [ty |-> ty, s |-> s, aware |-> aware, t |-> t]

\* The key is not in the dict.
Missing == Val("missing", "", FALSE, 0)
\* JSON null / Python None.
Null == Val("NoneType", "", FALSE, 0)
\* A JSON number.
Num == Val("int", "", FALSE, 0)
\* A plain text.
Str(s) == Val("str", s, FALSE, 0)
\* A datetime object; aware = it carries a UTC offset.
DT(aware, t) == Val("datetime", "", aware, t)
\* The text datetime.isoformat() renders for DT(aware, t).
IsoStr(aware, t) == Val("str", "iso", aware, t)
\* Another text that fromisoformat parses to DT(aware, t) (space separator).
AltStr(aware, t) == Val("str", "alt", aware, t)

IsStr(v) == v.ty = "str"
IsDatetime(v) == v.ty = "datetime"
IsIsoText(v) == IsStr(v) /\ v.s \in {"iso", "alt"}

\* datetime.fromisoformat: [err, val].
fromisoformat(v) ==
    IF ~IsStr(v) THEN [err |-> "TypeError", val |-> Null]
    ELSE IF ~IsIsoText(v) THEN [err |-> "ValueError", val |-> Null]
    ELSE [err |-> "", val |-> DT(v.aware, v.t)]

\* datetime.isoformat.
isoformat(d) == IsoStr(d.aware, d.t)

\* Lexicographic rank of a time text: "2024-01-01 0h..." (alt) sorts before
\* "2024-01-01T0h..." (iso), an offset suffix after the bare text, and a
\* text starting with a letter after both.
StrRank(v) ==
    IF v.s = "alt" THEN 2 * v.t + (IF v.aware THEN 1 ELSE 0)
    ELSE IF v.s = "iso" THEN 100 + 2 * v.t + (IF v.aware THEN 1 ELSE 0)
    ELSE 200

\* Python's a >= b: "True", "False" or "TypeError".
GE(a, b) ==
    IF IsDatetime(a) /\ IsDatetime(b) THEN
        IF a.aware # b.aware THEN "TypeError"
        ELSE IF a.t >= b.t THEN "True" ELSE "False"
    ELSE IF IsStr(a) /\ IsStr(b) THEN
        IF StrRank(a) >= StrRank(b) THEN "True" ELSE "False"
    ELSE IF a.ty = "int" /\ b.ty = "int" THEN "True"
    ELSE "TypeError"

\* Python's a < b.
LT(a, b) ==
    IF GE(a, b) = "TypeError" THEN "TypeError"
    ELSE IF GE(a, b) = "True" THEN "False" ELSE "True"

\* str.strip on the texts the model uses.
Strip(s) ==
    CASE s = " A " -> "A"
      [] s = " d " -> "d"
      [] s = "  " -> ""
      [] OTHER -> s

(* ------------------------------ events --------------------------------- *)

Event(id, title, description, st, et) ==
    [id |-> id, title |-> title, description |-> description,
     start_time |-> st, end_time |-> et]

\* A record of the file that has no 'id' key.
NoId == 0

Ids(evs) == {evs[i].id : i \in 1..Len(evs)}

(* ---------------------------- persistence ------------------------------ *)

\* The backing file: st = "absent" (no file), "empty" (zero bytes),
\* "partial" (a JSON text cut after `recs`), "array" (the JSON array recs).
File(st, recs) == [st |-> st, recs |-> recs]

\* One event as save_events renders it.
serializable_event(e) ==
    [e EXCEPT !.start_time = IF IsDatetime(@) THEN isoformat(@) ELSE @,
              !.end_time = IF IsDatetime(@) THEN isoformat(@) ELSE @]

\* A save that writes only the event changed last, not the collection.
serializable_events_last_only(evs) ==
    IF Len(evs) = 0 THEN <<>> ELSE <<serializable_event(evs[Len(evs)])>>

\* The loop of save_events over the whole collection.
serializable_events(evs) == [i \in 1..Len(evs) |-> serializable_event(evs[i])]

\* What the environment does to one save: "ok"; "open" (open() raises,
\* the file is untouched); "trunc" (the write fails right after open()
\* truncated the file); "write" (the write fails after n >= 1 whole records).
SaveOutcomes(evs) ==
    {[kind |-> k, n |-> 0] : k \in {"ok", "open", "trunc"}}
        \cup {[kind |-> "write", n |-> n] : n \in 1..(Len(evs) - 1)}

SaveOk == [kind |-> "ok", n |-> 0]

\* save_events: [ok, file].
save_events(evs, f, out) ==
    CASE out.kind = "ok" ->
            [ok |-> TRUE, file |-> File("array", serializable_events(evs))]
      [] out.kind = "open" -> [ok |-> FALSE, file |-> f]
      [] out.kind = "trunc" -> [ok |-> FALSE, file |-> File("empty", <<>>)]
      [] OTHER ->
            [ok |-> FALSE,
             file |-> File("partial", SubSeq(serializable_events(evs), 1, out.n))]

\* A load for which a time text that does not parse ends the whole load.
load_record_strict(r, nid) ==
    LET withId == IF r.id = NoId THEN [r EXCEPT !.id = nid] ELSE r
        nid2 == IF r.id = NoId THEN nid + 1 ELSE nid
        ps == fromisoformat(r.start_time)
        pe == fromisoformat(r.end_time)
    IN  IF r.start_time.ty = "missing" \/ r.end_time.ty = "missing" THEN
            [err |-> "KeyError", rec |-> withId, nid |-> nid2]
        ELSE IF ps.err # "" \/ pe.err # "" THEN
            [err |-> "ValueError", rec |-> withId, nid |-> nid2]
        ELSE
            [err |-> "",
             rec |-> [withId EXCEPT !.start_time = ps.val, !.end_time = pe.val],
             nid |-> nid2]

\* A load that parses start_time only and keeps end_time as text.
load_record_start_only(r, nid) ==
    LET withId == IF r.id = NoId THEN [r EXCEPT !.id = nid] ELSE r
        nid2 == IF r.id = NoId THEN nid + 1 ELSE nid
        ps == fromisoformat(r.start_time)
    IN  IF r.start_time.ty = "missing" THEN
            [err |-> "KeyError", rec |-> withId, nid |-> nid2]
        ELSE IF ps.err # "" THEN
            [err |-> "", rec |-> withId, nid |-> nid2]
        ELSE
            [err |-> "", rec |-> [withId EXCEPT !.start_time = ps.val], nid |-> nid2]

\* The for-loop body of load_events on one record: [err, rec, nid].
load_record(r, nid) ==
    LET withId == IF r.id = NoId THEN [r EXCEPT !.id = nid] ELSE r
        nid2 == IF r.id = NoId THEN nid + 1 ELSE nid
        ps == fromisoformat(r.start_time)
        pe == fromisoformat(r.end_time)
    IN  IF r.start_time.ty = "missing" THEN
            [err |-> "KeyError", rec |-> withId, nid |-> nid2]
        ELSE IF ps.err # "" THEN
            [err |-> "", rec |-> withId, nid |-> nid2]
        ELSE IF r.end_time.ty = "missing" THEN
            [err |-> "KeyError", rec |-> withId, nid |-> nid2]
        ELSE IF pe.err # "" THEN
            [err |-> "", rec |-> [withId EXCEPT !.start_time = ps.val], nid |-> nid2]
        ELSE
            [err |-> "",
             rec |-> [withId EXCEPT !.start_time = ps.val, !.end_time = pe.val],
             nid |-> nid2]

RECURSIVE load_loop(_, _, _)
\* The for-loop of load_events from record i on: [err, events, nid].
load_loop(recs, i, nid) ==
    IF i > Len(recs) THEN [err |-> "", events |-> <<>>, nid |-> nid]
    ELSE LET one == load_record(recs[i], nid)
             rest == load_loop(recs, i + 1, one.nid)
         IN  IF one.err # "" THEN [err |-> one.err, events |-> <<>>, nid |-> one.nid]
             ELSE [err |-> rest.err,
                   events |-> IF rest.err # "" THEN <<>> ELSE <<one.rec>> \o rest.events,
                   nid |-> rest.nid]

\* A load that reads the whole records of a file cut in the middle.
load_events_reads_cut_file(f, nid) ==
    IF f.st \in {"absent", "empty"} THEN [events |-> <<>>, nid |-> nid]
    ELSE LET r == load_loop(f.recs, 1, nid)
         IN  [events |-> r.events, nid |-> r.nid]

\* load_events: [events, nid].
load_events(f, nid) ==
    IF f.st \in {"absent", "empty"} THEN [events |-> <<>>, nid |-> nid]
    ELSE IF f.st = "partial" THEN [events |-> <<>>, nid |-> nid]
    ELSE LET r == load_loop(f.recs, 1, nid)
         IN  [events |-> r.events, nid |-> r.nid]

(* ------------------------------ requests ------------------------------- *)

\* A request body (a JSON object): each key holds a value or is Missing.
Payload(title, description, st, et, id) ==
    [title |-> title, description |-> description,
     start_time |-> st, end_time |-> et, id |-> id]

Has(data, k) == data[k].ty # "missing"

\* `not data`: the body is the empty object.
IsEmptyBody(data) == \A k \in DOMAIN data : ~Has(data, k)

\* dict.get(k): None when the key is missing.
Get(data, k) == IF Has(data, k) THEN data[k] ELSE Null

\* A validator for which a create needs no description.
required_fields_without_description == <<"title", "start_time", "end_time">>

required_fields == <<"title", "description", "start_time", "end_time">>

MissingMsg(k) ==
    CASE k = "title" -> "Missing required field: 'title'"
      [] k = "description" -> "Missing required field: 'description'"
      [] k = "start_time" -> "Missing required field: 'start_time'"
      [] OTHER -> "Missing required field: 'end_time'"

\* The errors one time field adds, and its parsed value (None if none).
TimeErrors(v, notStr, badFormat) ==
    IF v.ty = "NoneType" THEN <<>>
    ELSE IF ~IsStr(v) THEN <<notStr>>
    ELSE IF fromisoformat(v).err # "" THEN <<badFormat>>
    ELSE <<>>

ParsedTime(v) ==
    IF IsStr(v) /\ fromisoformat(v).err = "" THEN fromisoformat(v).val ELSE Null

\* validate_event_data: [valid, errors, parsed_start_time, parsed_end_time].
validate_event_data(data, is_update) ==
    LET missing == IF is_update THEN <<>>
                   ELSE SelectSeq(required_fields, LAMBDA k : ~Has(data, k))
        e1 == [i \in 1..Len(missing) |-> MissingMsg(missing[i])]
        e2 == IF Has(data, "title")
                 /\ (~IsStr(data.title) \/ Strip(data.title.s) = "")
              THEN <<"Title must be a non-empty string.">> ELSE <<>>
        e3 == IF Has(data, "description") /\ ~IsStr(data.description)
              THEN <<"Description must be a string.">> ELSE <<>>
        start_time_str == Get(data, "start_time")
        end_time_str == Get(data, "end_time")
        e4 == TimeErrors(start_time_str, "start_time must be a string.",
                         "Invalid start_time format. Use ISO 8601 (YYYY-MM-DDTHH:MM:SS).")
        e5 == TimeErrors(end_time_str, "end_time must be a string.",
                         "Invalid end_time format. Use ISO 8601 (YYYY-MM-DDTHH:MM:SS).")
        errors == e1 \o e2 \o e3 \o e4 \o e5
    IN  [valid |-> Len(errors) = 0, errors |-> errors,
         parsed_start_time |-> ParsedTime(start_time_str),
         parsed_end_time |-> ParsedTime(end_time_str)]

\* What a handler returns: the new store, file and id counter, the HTTP
\* status, the kind of outcome and the message(s) of the response.
Result(evs, f, nid, status, kind, msg) ==
    [events |-> evs, file |-> f, nid |-> nid, status |-> status,
     kind |-> kind, msg |-> msg]

\* A create that gives every event the same id.
create_event_fixed_id(evs, f, nid, data, out) ==
    LET v == validate_event_data(data, FALSE)
        cmp == GE(v.parsed_start_time, v.parsed_end_time)
        new_event == Event(1, Strip(data.title.s), Strip(data.description.s),
                           v.parsed_start_time, v.parsed_end_time)
        evs2 == Append(evs, new_event)
        sv == save_events(evs2, f, out)
    IN  IF IsEmptyBody(data) THEN
            Result(evs, f, nid, 400, "nojson", <<"Request body must be JSON.">>)
        ELSE IF ~v.valid THEN
            Result(evs, f, nid, 400, "validation", v.errors)
        ELSE IF cmp = "TypeError" THEN
            Result(evs, f, nid, 500, "exception",
                   <<"An unexpected error occurred on the server.">>)
        ELSE IF cmp = "True" THEN
            Result(evs, f, nid, 400, "ordering",
                   <<"Start time must be strictly before end time.">>)
        ELSE IF ~sv.ok THEN
            Result(evs2, sv.file, nid + 1, 500, "save",
                   <<"An unexpected error occurred on the server.">>)
        ELSE
            Result(evs2, sv.file, nid + 1, 201, "ok", <<"Event created successfully">>)

\* create_event (POST /events) on body `data`, with the save ending `out`.
create_event(evs, f, nid, data, out) ==
    LET v == validate_event_data(data, FALSE)
        cmp == GE(v.parsed_start_time, v.parsed_end_time)
        new_event == Event(nid, Strip(data.title.s), Strip(data.description.s),
                           v.parsed_start_time, v.parsed_end_time)
        evs2 == Append(evs, new_event)
        sv == save_events(evs2, f, out)
    IN  IF IsEmptyBody(data) THEN
            Result(evs, f, nid, 400, "nojson", <<"Request body must be JSON.">>)
        ELSE IF ~v.valid THEN
            Result(evs, f, nid, 400, "validation", v.errors)
        ELSE IF cmp = "TypeError" THEN
            Result(evs, f, nid, 500, "exception",
                   <<"An unexpected error occurred on the server.">>)
        ELSE IF cmp = "True" THEN
            Result(evs, f, nid, 400, "ordering",
                   <<"Start time must be strictly before end time.">>)
        ELSE IF ~sv.ok THEN
            Result(evs2, sv.file, nid + 1, 500, "save",
                   <<"An unexpected error occurred on the server.">>)
        ELSE
            Result(evs2, sv.file, nid + 1, 201, "ok", <<"Event created successfully">>)

\* Index of the first event with this id, 0 if none (the scans of
\* update_event and delete_event; 0 stands for their -1).
IndexOf(evs, id) ==
    IF \E i \in 1..Len(evs) : evs[i].id = id
    THEN CHOOSE i \in 1..Len(evs) :
            evs[i].id = id /\ \A j \in 1..(i - 1) : evs[j].id # id
    ELSE 0

\* A merge that also overwrites the id when the body carries an 'id' key
\* (with -1, a value that is no id of the store).
apply_updates_with_id(e, data, v) ==
    LET e0 == IF Has(data, "id") THEN [e EXCEPT !.id = 0 - 1] ELSE e
        e1 == IF Has(data, "title") THEN [e0 EXCEPT !.title = Strip(data.title.s)] ELSE e0
        e2 == IF Has(data, "description")
              THEN [e1 EXCEPT !.description = Strip(data.description.s)] ELSE e1
        e3 == IF v.parsed_start_time.ty # "NoneType"
              THEN [e2 EXCEPT !.start_time = v.parsed_start_time] ELSE e2
        e4 == IF v.parsed_end_time.ty # "NoneType"
              THEN [e3 EXCEPT !.end_time = v.parsed_end_time] ELSE e3
    IN  e4

\* The in-place assignments of update_event on event_to_update.
apply_updates(e, data, v) ==
    LET e1 == IF Has(data, "title") THEN [e EXCEPT !.title = Strip(data.title.s)] ELSE e
        e2 == IF Has(data, "description")
              THEN [e1 EXCEPT !.description = Strip(data.description.s)] ELSE e1
        e3 == IF v.parsed_start_time.ty # "NoneType"
              THEN [e2 EXCEPT !.start_time = v.parsed_start_time] ELSE e2
        e4 == IF v.parsed_end_time.ty # "NoneType"
              THEN [e3 EXCEPT !.end_time = v.parsed_end_time] ELSE e3
    IN  e4

\* An update that answers success when no event has the id.
update_event_absent_ok(evs, f, nid, id, data, out) ==
    LET v == validate_event_data(data, TRUE)
        i == IndexOf(evs, id)
        e == apply_updates(evs[i], data, v)
        evs2 == [evs EXCEPT ![i] = e]
        cmp == GE(e.start_time, e.end_time)
        sv == save_events(evs2, f, out)
    IN  IF IsEmptyBody(data) THEN
            Result(evs, f, nid, 400, "nojson", <<"Request body must be JSON.">>)
        ELSE IF ~v.valid THEN
            Result(evs, f, nid, 400, "validation", v.errors)
        ELSE IF i = 0 THEN
            Result(evs, f, nid, 200, "ok", <<"Event updated successfully">>)
        ELSE IF cmp = "TypeError" THEN
            Result(evs2, f, nid, 500, "exception",
                   <<"An unexpected error occurred on the server.">>)
        ELSE IF cmp = "True" THEN
            Result(evs2, f, nid, 400, "ordering",
                   <<"Updated start time must be strictly before updated end time.">>)
        ELSE IF ~sv.ok THEN
            Result(evs2, sv.file, nid, 500, "save",
                   <<"An unexpected error occurred on the server.">>)
        ELSE
            Result(evs2, sv.file, nid, 200, "ok", <<"Event updated successfully">>)

\* update_event (PUT /events/<id>).
update_event(evs, f, nid, id, data, out) ==
    LET v == validate_event_data(data, TRUE)
        i == IndexOf(evs, id)
        e == apply_updates(evs[i], data, v)
        evs2 == [evs EXCEPT ![i] = e]
        cmp == GE(e.start_time, e.end_time)
        sv == save_events(evs2, f, out)
    IN  IF IsEmptyBody(data) THEN
            Result(evs, f, nid, 400, "nojson", <<"Request body must be JSON.">>)
        ELSE IF ~v.valid THEN
            Result(evs, f, nid, 400, "validation", v.errors)
        ELSE IF i = 0 THEN
            Result(evs, f, nid, 404, "notfound", <<"Event not found.">>)
        ELSE IF cmp = "TypeError" THEN
            Result(evs2, f, nid, 500, "exception",
                   <<"An unexpected error occurred on the server.">>)
        ELSE IF cmp = "True" THEN
            Result(evs2, f, nid, 400, "ordering",
                   <<"Updated start time must be strictly before updated end time.">>)
        ELSE IF ~sv.ok THEN
            Result(evs2, sv.file, nid, 500, "save",
                   <<"An unexpected error occurred on the server.">>)
        ELSE
            Result(evs2, sv.file, nid, 200, "ok", <<"Event updated successfully">>)

\* list.pop(i).
Pop(evs, i) == SubSeq(evs, 1, i - 1) \o SubSeq(evs, i + 1, Len(evs))

\* A delete that puts the event back when the save fails.
delete_event_rollback(evs, f, nid, id, out) ==
    LET i == IndexOf(evs, id)
        evs2 == Pop(evs, i)
        sv == save_events(evs2, f, out)
    IN  IF i = 0 THEN
            Result(evs, f, nid, 404, "notfound", <<"Event not found.">>)
        ELSE IF ~sv.ok THEN
            Result(evs, sv.file, nid, 500, "save",
                   <<"An unexpected error occurred on the server.">>)
        ELSE
            Result(evs2, sv.file, nid, 200, "ok", <<"Event deleted successfully">>)

\* A delete that answers success, and saves, when no event has the id.
delete_event_absent_ok(evs, f, nid, id, out) ==
    LET i == IndexOf(evs, id)
        evs2 == IF i = 0 THEN evs ELSE Pop(evs, i)
        sv == save_events(evs2, f, out)
    IN  IF ~sv.ok THEN
            Result(evs2, sv.file, nid, 500, "save",
                   <<"An unexpected error occurred on the server.">>)
        ELSE
            Result(evs2, sv.file, nid, 200, "ok", <<"Event deleted successfully">>)

\* delete_event (DELETE /events/<id>).
delete_event(evs, f, nid, id, out) ==
    LET i == IndexOf(evs, id)
        evs2 == Pop(evs, i)
        sv == save_events(evs2, f, out)
    IN  IF i = 0 THEN
            Result(evs, f, nid, 404, "notfound", <<"Event not found.">>)
        ELSE IF ~sv.ok THEN
            Result(evs2, sv.file, nid, 500, "save",
                   <<"An unexpected error occurred on the server.">>)
        ELSE
            Result(evs2, sv.file, nid, 200, "ok", <<"Event deleted successfully">>)

\* sorted() raises TypeError when two keys cannot be compared.
SortRaises(evs) ==
    \E i, j \in 1..Len(evs) :
        i # j /\ LT(evs[i].start_time, evs[j].start_time) = "TypeError"

RECURSIVE Insert(_, _)
\* Insert e after every element whose key is not greater (stable).
Insert(sorted, e) ==
    IF sorted = <<>> THEN <<e>>
    ELSE IF LT(e.start_time, Head(sorted).start_time) = "True"
         THEN <<e>> \o sorted
         ELSE <<Head(sorted)>> \o Insert(Tail(sorted), e)

RECURSIVE StableSort(_, _)
\* sorted(events, key=start_time) of the first n events.
StableSort(evs, n) ==
    IF n = 0 THEN <<>> ELSE Insert(StableSort(evs, n - 1), evs[n])

\* The response form of one event; .isoformat() needs datetime objects.
response_event(e) ==
    [e EXCEPT !.start_time = isoformat(@), !.end_time = isoformat(@)]

\* list_events (GET /events): [status, body].
list_events(evs) ==
    IF SortRaises(evs) THEN [status |-> 500, body |-> <<>>]
    ELSE IF \E i \in 1..Len(evs) :
                ~IsDatetime(evs[i].start_time) \/ ~IsDatetime(evs[i].end_time)
         THEN [status |-> 500, body |-> <<>>]
         ELSE LET s == StableSort(evs, Len(evs))
              IN  [status |-> 200, body |-> [i \in 1..Len(s) |-> response_event(s[i])]]

(* ------------------------------- inputs -------------------------------- *)

\* Hours at which the requests also use offset-aware texts ("...+00:00").
AwareHours == 0..1

GoodTitles == {Str(" A "), Str("B")}
BadTitles == {Str("  "), Num}
GoodTimes ==
    {IsoStr(FALSE, t) : t \in 0..MaxTime} \cup {IsoStr(TRUE, t) : t \in AwareHours}
BadTimes == {Num, Str("garbage")}

\* Bodies that supply all four fields with well-typed values.
FullBodies ==
    {Payload(Str(" A "), Str(" d "), st, et, Missing) :
        st \in GoodTimes, et \in GoodTimes}

\* Bodies that supply one or two fields with well-typed values (a time
\* may be JSON null), or only a key the handlers ignore.
PartialBodies ==
    {Payload(ti, Missing, Missing, Missing, Missing) : ti \in GoodTitles}
        \cup {Payload(Missing, Str(" d "), Missing, Missing, Missing)}
        \cup {Payload(ti, Missing, st, Missing, Missing) :
                ti \in GoodTitles \cup {Missing}, st \in GoodTimes \cup {Null}}
        \cup {Payload(Missing, Missing, Missing, et, Missing) : et \in GoodTimes \cup {Null}}
        \cup {Payload(Missing, Missing, st, et, Missing) : st \in GoodTimes, et \in GoodTimes}
        \cup {Payload(Missing, Missing, Missing, Missing, Str("x"))}

\* The empty object, and full bodies with one field missing, null, or of a
\* wrong type or format.
FaultyBodies ==
    LET ok == Payload(Str("B"), Str(" d "), IsoStr(FALSE, 0), IsoStr(FALSE, 1), Missing)
    IN  {Payload(Missing, Missing, Missing, Missing, Missing)}
            \cup {[ok EXCEPT ![k] = Missing] : k \in {"title", "description", "start_time", "end_time"}}
            \cup {[ok EXCEPT ![k] = Null] : k \in {"start_time", "end_time"}}
            \cup {[ok EXCEPT !.title = ti] : ti \in BadTitles}
            \cup {[ok EXCEPT !.description = Num]}
            \cup {[ok EXCEPT ![k] = v] : k \in {"start_time", "end_time"}, v \in BadTimes}

CreateBodies == FullBodies \cup FaultyBodies
UpdateBodies == PartialBodies \cup FaultyBodies

\* The bodies of the runs in which a save may fail or that start from a
\* file of an earlier run: offset-naive times in the first hours, updates
\* of one field.
EarlyStarts == {IsoStr(FALSE, t) : t \in 0..1}
EarlyEnds == {IsoStr(FALSE, t) : t \in 1..2}
\* POST bodies with title, start_time and end_time, no description, and
\* start_time later than end_time.
ScenarioBodies ==
    {Payload(Str("B"), Missing, p[1], p[2], Missing) :
        p \in {q \in EarlyEnds \X EarlyStarts : q[1].t > q[2].t}}
CreateBodiesSmall ==
    {Payload(Str(" A "), Str(" d "), st, et, Missing) : st \in EarlyStarts, et \in EarlyEnds}
        \cup {Payload(Missing, Missing, Missing, Missing, Missing)}
        \cup ScenarioBodies
UpdateBodiesSmall ==
    {Payload(Str("B"), Missing, Missing, Missing, Missing)}
        \cup {Payload(Missing, Missing, st, Missing, Missing) : st \in EarlyStarts}
        \cup {Payload(Missing, Missing, Missing, et, Missing) : et \in EarlyEnds}
        \cup {Payload(Missing, Missing, Missing, Missing, Missing)}

\* Update bodies that validate_event_data accepts: one field, several
\* fields, a null time, offset-aware times, an 'id' key.
MergeBodies ==
    {Payload(ti, Missing, Missing, Missing, Missing) : ti \in GoodTitles}
        \cup {Payload(Missing, Str(" d "), Missing, Missing, Missing)}
        \cup {Payload(Missing, Missing, st, Missing, Missing) : st \in EarlyStarts \cup {Null}}
        \cup {Payload(Missing, Missing, Missing, et, Missing) : et \in EarlyEnds \cup {Null}}
        \cup {Payload(Str(" A "), Missing, st, et, Missing) :
                st \in EarlyStarts, et \in EarlyEnds}
        \cup {Payload(Missing, Missing, IsoStr(TRUE, 0), IsoStr(TRUE, 1), Missing),
              Payload(Str("B"), Str(" d "), IsoStr(FALSE, 0), IsoStr(FALSE, 2), Str("x")),
              Payload(Missing, Missing, Missing, Missing, Str("x"))}

RequestIds == 1..MaxIds

(* ---------------------------- state machine ---------------------------- *)

Last(op, status, kind) == [op |-> op, status |-> status, kind |-> kind]

\* What the successful requests so far have established (history variable):
\* a 201 appends the created event, a 200 update merges its body onto the
\* established event, a 200 delete removes it.
Establish(op, r, id, data) ==
    IF r.kind # "ok" THEN committed
    ELSE IF op = "create" THEN Append(committed, r.events[Len(r.events)])
    ELSE IF op = "update" THEN
        LET i == IndexOf(committed, id)
        IN  IF i = 0 THEN committed
            ELSE [committed EXCEPT
                    ![i] = apply_updates(@, data, validate_event_data(data, TRUE))]
    ELSE Pop(committed, IndexOf(committed, id))

\* The request threads of the server (Flask's development server handles
\* each request on a thread of its own).
Threads == {"t1", "t2"}

\* A thread that handles no request: op and pc say which handler it runs
\* and where it stands; id and data are the request; idx, obj, sorted, body
\* and removed are the handler's locals; status and kind the response.
\* legit is a history field: the states of events a list may show.
IdleThread ==
    [op |-> "idle", pc |-> "idle", id |-> NoId,
     data |-> Payload(Missing, Missing, Missing, Missing, Missing),
     idx |-> 0, obj |-> Event(NoId, "", "", Null, Null), sorted |-> <<>>,
     body |-> <<>>, removed |-> NoId, status |-> 0, kind |-> "", legit |-> {}]

Respond(op, r, id, data) ==
    /\ threads' = threads
    /\ events' = r.events
    /\ file' = r.file
    /\ nextId' = r.nid
    /\ last' = Last(op, r.status, r.kind)
    /\ committed' = Establish(op, r, id, data)
    /\ requests' = requests + 1

\* The save outcomes to explore for a request: the failures too when the
\* environment may fail (io) and the handler reaches save_events.
OutcomesFor(io, kind, evs) ==
    IF io /\ kind = "ok" THEN SaveOutcomes(evs) ELSE {SaveOk}

Started(f, nid) ==
    /\ file = f
    /\ events = load_events(f, nid).events
    /\ nextId = load_events(f, nid).nid
    /\ last = Last("start", 0, "")
    /\ committed = events
    /\ requests = 0
    /\ threads = [t \in Threads |-> IdleThread]

\* Line 77 on a machine that holds no events.json yet.
Init == Started(File("absent", <<>>), 1)

Create(io, bodies) ==
    /\ requests < MaxRequests
    /\ nextId <= MaxIds
    /\ \E data \in bodies :
        LET r0 == create_event(events, file, nextId, data, SaveOk)
        IN  \E out \in OutcomesFor(io, r0.kind, r0.events) :
                Respond("create", create_event(events, file, nextId, data, out), 0, data)

Update(io, bodies) ==
    /\ requests < MaxRequests
    /\ \E id \in RequestIds, data \in bodies :
        LET r0 == update_event(events, file, nextId, id, data, SaveOk)
        IN  \E out \in OutcomesFor(io, r0.kind, r0.events) :
                Respond("update", update_event(events, file, nextId, id, data, out), id, data)

Delete(io) ==
    /\ requests < MaxRequests
    /\ \E id \in RequestIds :
        LET r0 == delete_event(events, file, nextId, id, SaveOk)
        IN  \E out \in OutcomesFor(io, r0.kind, r0.events) :
                Respond("delete", delete_event(events, file, nextId, id, out), id, Missing)

List ==
    /\ requests < MaxRequests
    /\ last' = Last("list", list_events(events).status, "")
    /\ requests' = requests + 1
    /\ UNCHANGED <<events, file, nextId, committed, threads>>

\* The process stops and starts again: line 77 runs load_events anew.
Restart ==
    /\ requests < MaxRequests
    /\ events' = load_events(file, nextId).events
    /\ nextId' = load_events(file, nextId).nid
    /\ last' = Last("restart", 0, "")
    /\ requests' = requests + 1
    /\ UNCHANGED <<file, committed, threads>>

\* Every save succeeds.
Next ==
    \/ Create(FALSE, CreateBodies)
    \/ Update(FALSE, UpdateBodies)
    \/ Delete(FALSE)
    \/ List
    \/ Restart

Spec == Init /\ [][Next]_vars

\* A save may fail (IOError on open or while writing).
NextIO ==
    \/ Create(TRUE, CreateBodiesSmall)
    \/ Update(TRUE, UpdateBodiesSmall)
    \/ Delete(TRUE)
    \/ List
    \/ Restart

SpecIO == Init /\ [][NextIO]_vars

\* Files an earlier run or another program may have left: records with
\* and without an id, with texts fromisoformat rejects, with a key missing.
RecGood == Event(1, "A", "d", IsoStr(FALSE, 0), IsoStr(FALSE, 1))
InitRecords ==
    {RecGood,
     [RecGood EXCEPT !.id = NoId],
     [RecGood EXCEPT !.start_time = Str("garbage")],
     [RecGood EXCEPT !.end_time = Str("garbage")],
     [RecGood EXCEPT !.start_time = Missing],
     [RecGood EXCEPT !.start_time = AltStr(FALSE, 0), !.end_time = AltStr(FALSE, 1)]}
InitFiles ==
    {File(st, <<>>) : st \in {"absent", "empty", "partial", "array"}}
        \cup {File("array", <<r>>) : r \in InitRecords}
        \cup {File("array", <<r, [RecGood EXCEPT !.id = NoId]>>) : r \in InitRecords}

\* Line 77 on a machine that holds some events.json; the ids uuid4 hands
\* out differ from the id the file uses.
InitLoad == \E f \in InitFiles : Started(f, 2)

NextLoad ==
    \/ Create(FALSE, CreateBodiesSmall)
    \/ Update(FALSE, UpdateBodiesSmall)
    \/ Delete(FALSE)
    \/ List
    \/ Restart

SpecLoad == InitLoad /\ [][NextLoad]_vars

(* --------------------------- request threads --------------------------- *)

\* Requests on separate threads: a thread switch can fall between any two
\* statements of a handler, so each handler is cut at its reads and writes
\* of the shared list `events`. sorted(), dict.copy(), list.pop() and
\* save_events are taken as one step each.

\* The bodies of the concurrent requests.
ThreadCreateBodies ==
    {Payload(Str(" A "), Str(" d "), IsoStr(FALSE, 1), IsoStr(FALSE, 2), Missing),
     Payload(Missing, Missing, Missing, Missing, Missing)}
ThreadUpdateBodies ==
    {Payload(Str("B"), Missing, Missing, IsoStr(FALSE, 2), Missing),
     Payload(Missing, Missing, Missing, IsoStr(FALSE, 0), Missing),
     Payload(Missing, Missing, Missing, Missing, Missing)}

Free(t) == threads[t].pc \in {"idle", "done"}

\* The thread t, now th, returns its response.
Finish(t, th, status, kind) ==
    /\ threads' = [threads EXCEPT
                    ![t] = [th EXCEPT !.pc = "done", !.status = status, !.kind = kind]]
    /\ last' = Last(th.op, status, kind)

\* The thread t, now th, goes on to pc.
Goto(t, th, pc) ==
    /\ threads' = [threads EXCEPT ![t] = [th EXCEPT !.pc = pc]]
    /\ last' = last

\* The dict a thread holds a reference to: the event with that id while
\* the list holds it, else the thread's own reference to the popped dict.
Obj(th) ==
    IF th.id \in Ids(events) THEN events[IndexOf(events, th.id)] ELSE th.obj

\* Lines 243-251.
BeginUpdate(t) ==
    /\ requests < MaxRequests /\ Free(t)
    /\ \E id \in RequestIds, data \in ThreadUpdateBodies :
        LET th == [IdleThread EXCEPT !.op = "update", !.id = id, !.data = data]
        IN  IF IsEmptyBody(data) THEN Finish(t, th, 400, "nojson")
            ELSE IF ~validate_event_data(data, TRUE).valid
                 THEN Finish(t, th, 400, "validation")
                 ELSE Goto(t, th, "scan")
    /\ requests' = requests + 1
    /\ UNCHANGED <<events, file, nextId, committed>>

\* The assignment of lines 265-274 that comes first from field k on.
RECURSIVE NextAssign(_, _, _)
NextAssign(data, v, k) ==
    LET order == <<"title", "description", "start_time", "end_time">>
        due == CASE order[k] = "title" -> Has(data, "title")
                 [] order[k] = "description" -> Has(data, "description")
                 [] order[k] = "start_time" -> v.parsed_start_time.ty # "NoneType"
                 [] OTHER -> v.parsed_end_time.ty # "NoneType"
    IN  IF k > 4 THEN "check"
        ELSE IF due THEN order[k]
        ELSE NextAssign(data, v, k + 1)

\* Position of an assignment among lines 265-274.
FieldNo(k) ==
    CASE k = "title" -> 1 [] k = "description" -> 2 [] k = "start_time" -> 3 [] OTHER -> 4

\* The state the event has when the update of th is applied in full to
\* pre, or pre itself when lines 278-279 reject that state.
PostUpdate(pre, th) ==
    LET post == apply_updates(pre, th.data, validate_event_data(th.data, TRUE))
    IN  IF GE(post.start_time, post.end_time) = "False" THEN post ELSE pre

\* Lines 253-262: the scan; event_to_update references the dict found.
UpdateScan(t) ==
    /\ threads[t].op = "update" /\ threads[t].pc = "scan"
    /\ LET th == threads[t]
           i == IndexOf(events, th.id)
           v == validate_event_data(th.data, TRUE)
           both == {events[i], PostUpdate(events[i], th)}
       IN  IF i = 0 THEN Finish(t, th, 404, "notfound")
           ELSE /\ threads' = [u \in Threads |->
                        IF u = t THEN [th EXCEPT !.pc = NextAssign(th.data, v, 1),
                                                 !.legit = both]
                        ELSE IF threads[u].op = "list" /\ threads[u].pc = "copy"
                             THEN [threads[u] EXCEPT !.legit = @ \cup both]
                             ELSE threads[u]]
                /\ last' = last
    /\ UNCHANGED <<events, file, nextId, committed, requests>>

\* One of the assignments of lines 265-274.
UpdateAssign(t) ==
    /\ threads[t].op = "update"
    /\ threads[t].pc \in {"title", "description", "start_time", "end_time"}
    /\ LET th == threads[t]
           v == validate_event_data(th.data, TRUE)
           val == CASE th.pc = "title" -> Strip(th.data.title.s)
                    [] th.pc = "description" -> Strip(th.data.description.s)
                    [] th.pc = "start_time" -> v.parsed_start_time
                    [] OTHER -> v.parsed_end_time
           new == [Obj(th) EXCEPT ![th.pc] = val]
           pc == IF th.pc = "end_time" THEN "check"
                 ELSE NextAssign(th.data, v, FieldNo(th.pc) + 1)
       IN  IF th.id \in Ids(events)
           THEN /\ events' = [events EXCEPT ![IndexOf(events, th.id)] = new]
                /\ Goto(t, th, pc)
           ELSE /\ events' = events
                /\ Goto(t, [th EXCEPT !.obj = new], pc)
    /\ UNCHANGED <<file, nextId, committed, requests>>

\* Lines 278-279.
UpdateCheck(t) ==
    /\ threads[t].op = "update" /\ threads[t].pc = "check"
    /\ LET th == threads[t]
           cmp == GE(Obj(th).start_time, Obj(th).end_time)
       IN  IF cmp = "TypeError" THEN Finish(t, th, 500, "exception")
           ELSE IF cmp = "True" THEN Finish(t, th, 400, "ordering")
           ELSE Goto(t, th, "save")
    /\ UNCHANGED <<events, file, nextId, committed, requests>>

\* Lines 282-289.
UpdateSave(t) ==
    /\ threads[t].op = "update" /\ threads[t].pc = "save"
    /\ file' = save_events(events, file, SaveOk).file
    /\ Finish(t, threads[t], 200, "ok")
    /\ committed' = Establish("update", [kind |-> "ok"], threads[t].id, threads[t].data)
    /\ UNCHANGED <<events, nextId, requests>>

\* Line 306.
BeginDelete(t) ==
    /\ requests < MaxRequests /\ Free(t)
    /\ \E id \in RequestIds :
        Goto(t, [IdleThread EXCEPT !.op = "delete", !.id = id], "scan")
    /\ requests' = requests + 1
    /\ UNCHANGED <<events, file, nextId, committed>>

\* Lines 308-315: the scan for the index.
DeleteScan(t) ==
    /\ threads[t].op = "delete" /\ threads[t].pc = "scan"
    /\ LET th == threads[t]
           i == IndexOf(events, th.id)
       IN  IF i = 0 THEN Finish(t, th, 404, "notfound")
           ELSE Goto(t, [th EXCEPT !.idx = i], "pop")
    /\ UNCHANGED <<events, file, nextId, committed, requests>>

\* Line 318: events.pop(event_index_to_delete). The threads that hold a
\* reference to the popped dict keep it.
DeletePop(t) ==
    /\ threads[t].op = "delete" /\ threads[t].pc = "pop"
    /\ LET th == threads[t]
           gone == events[th.idx]
       IN  IF th.idx > Len(events)
           THEN /\ Finish(t, th, 500, "IndexError")
                /\ events' = events
           ELSE /\ events' = Pop(events, th.idx)
                /\ threads' = [u \in Threads |->
                        IF u = t THEN [th EXCEPT !.pc = "save", !.removed = gone.id]
                        ELSE IF threads[u].op = "update" /\ threads[u].id = gone.id
                             THEN [threads[u] EXCEPT !.obj = gone]
                        ELSE IF threads[u].op = "list"
                             THEN [threads[u] EXCEPT !.sorted =
                                    [k \in 1..Len(@) |->
                                        IF @[k].id = gone.id THEN gone ELSE @[k]]]
                             ELSE threads[u]]
                /\ last' = last
    /\ UNCHANGED <<file, nextId, committed, requests>>

\* Lines 319-321.
DeleteSave(t) ==
    /\ threads[t].op = "delete" /\ threads[t].pc = "save"
    /\ file' = save_events(events, file, SaveOk).file
    /\ Finish(t, threads[t], 200, "ok")
    /\ committed' = IF threads[t].removed \in Ids(committed)
                    THEN Pop(committed, IndexOf(committed, threads[t].removed))
                    ELSE committed
    /\ UNCHANGED <<events, nextId, requests>>

\* The states of event e a list that starts now may show: the state
\* before and the state after the update that is being applied to it, or
\* else the state it has.
LegitNow(e) ==
    IF \E u \in Threads :
            /\ threads[u].op = "update" /\ threads[u].id = e.id
            /\ threads[u].pc \notin {"scan", "done"}
    THEN UNION {threads[u].legit : u \in {w \in Threads :
                    /\ threads[w].op = "update" /\ threads[w].id = e.id
                    /\ threads[w].pc \notin {"scan", "done"}}}
    ELSE {e}

\* Line 219: sorted() copies the list and orders the copy.
BeginList(t) ==
    /\ requests < MaxRequests /\ Free(t)
    /\ LET th == [IdleThread EXCEPT
                    !.op = "list",
                    !.sorted = StableSort(events, Len(events)),
                    !.legit = UNION {LegitNow(events[i]) : i \in 1..Len(events)}]
       IN  IF SortRaises(events)
           THEN Finish(t, [th EXCEPT !.sorted = <<>>], 500, "exception")
           ELSE IF events = <<>> THEN Finish(t, th, 200, "ok")
           ELSE Goto(t, th, "copy")
    /\ requests' = requests + 1
    /\ UNCHANGED <<events, file, nextId, committed>>

\* Lines 223-229: one turn of the loop (event.copy() reads the dict as it
\* is now), and the return after the last turn.
ListCopy(t) ==
    /\ threads[t].op = "list" /\ threads[t].pc = "copy"
    /\ LET th == threads[t]
           k == Len(th.body) + 1
           cur == IF th.sorted[k].id \in Ids(events)
                  THEN events[IndexOf(events, th.sorted[k].id)]
                  ELSE th.sorted[k]
           th2 == [th EXCEPT !.body = Append(@, response_event(cur))]
       IN  IF ~IsDatetime(cur.start_time) \/ ~IsDatetime(cur.end_time)
           THEN Finish(t, th, 500, "exception")
           ELSE IF k = Len(th.sorted) THEN Finish(t, th2, 200, "ok")
           ELSE Goto(t, th2, "copy")
    /\ UNCHANGED <<events, file, nextId, committed, requests>>

\* Lines 174-192.
BeginCreate(t) ==
    /\ requests < MaxRequests /\ Free(t) /\ nextId <= MaxIds
    /\ \E data \in ThreadCreateBodies :
        LET v == validate_event_data(data, FALSE)
            cmp == GE(v.parsed_start_time, v.parsed_end_time)
            th == [IdleThread EXCEPT !.op = "create", !.data = data]
            new_event == Event(nextId, Strip(data.title.s), Strip(data.description.s),
                               v.parsed_start_time, v.parsed_end_time)
        IN  IF IsEmptyBody(data) THEN Finish(t, th, 400, "nojson") /\ nextId' = nextId
            ELSE IF ~v.valid THEN Finish(t, th, 400, "validation") /\ nextId' = nextId
            ELSE IF cmp = "TypeError"
                 THEN Finish(t, th, 500, "exception") /\ nextId' = nextId
            ELSE IF cmp = "True" THEN Finish(t, th, 400, "ordering") /\ nextId' = nextId
            ELSE /\ Goto(t, [th EXCEPT !.id = nextId, !.obj = new_event], "append")
                 /\ nextId' = nextId + 1
    /\ requests' = requests + 1
    /\ UNCHANGED <<events, file, committed>>

\* Line 194.
CreateAppend(t) ==
    /\ threads[t].op = "create" /\ threads[t].pc = "append"
    /\ events' = Append(events, threads[t].obj)
    /\ Goto(t, threads[t], "save")
    /\ UNCHANGED <<file, nextId, committed, requests>>

\* Lines 195-202.
CreateSave(t) ==
    /\ threads[t].op = "create" /\ threads[t].pc = "save"
    /\ file' = save_events(events, file, SaveOk).file
    /\ Finish(t, threads[t], 201, "ok")
    /\ committed' = Append(committed, threads[t].obj)
    /\ UNCHANGED <<events, nextId, requests>>

\* Line 77 on a machine whose events.json holds one event.
InitThreads == Started(File("array", <<RecGood>>), 2)

NextThreads ==
    \E t \in Threads :
        \/ BeginCreate(t) \/ CreateAppend(t) \/ CreateSave(t)
        \/ BeginUpdate(t) \/ UpdateScan(t) \/ UpdateAssign(t)
        \/ UpdateCheck(t) \/ UpdateSave(t)
        \/ BeginDelete(t) \/ DeleteScan(t) \/ DeletePop(t) \/ DeleteSave(t)
        \/ BeginList(t) \/ ListCopy(t)

SpecThreads == InitThreads /\ [][NextThreads]_vars

(* ------------------------------- claims -------------------------------- *)

Mutating == {"create", "update", "delete"}

\* start_time is strictly before end_time.
Ordered(e) == LT(e.start_time, e.end_time) = "True"

\* C1: after any sequence of create, update and delete requests from the
\* empty collection, every stored event has start_time < end_time.
C1_OrderingInvariant == \A i \in 1..Len(events) : Ordered(events[i])

\* C2: an update rejected with the ordering error leaves the stored events
\* exactly as they were.
C2_RejectedUpdateChangesNothing ==
    [][(last'.op = "update" /\ last'.kind = "ordering") => events' = events]_vars

\* C3: when no save fails, what a restart loads from the file is exactly
\* what the successful requests established.
C3_RestartYieldsEstablished == load_events(file, nextId).events = committed

\* The file is the JSON array of exactly the events evs, in order, each
\* time text reading back as the stored instant.
FileHolds(f, evs) ==
    /\ f.st = "array"
    /\ Len(f.recs) = Len(evs)
    /\ \A i \in 1..Len(evs) :
        /\ f.recs[i].id = evs[i].id
        /\ f.recs[i].title = evs[i].title
        /\ f.recs[i].description = evs[i].description
        /\ fromisoformat(f.recs[i].start_time).val = evs[i].start_time
        /\ fromisoformat(f.recs[i].end_time).val = evs[i].end_time

\* C4: when a create, update or delete answers 200/201, the file holds
\* the whole current collection.
C4_PersistBeforeReturn ==
    (last.op \in Mutating /\ last.status \in {200, 201}) => FileHolds(file, events)

\* C4 witness: a successful update of one of two stored events.
C4_Witness ==
    last.op = "update" /\ last.status = 200 /\ Len(events) = 2

\* C5: whenever the file changes, its new content is the complete new
\* snapshot (never an empty or truncated one).
C5_SaveIsAtomic ==
    [][file' = file \/ file' = File("array", serializable_events(events'))]_vars

\* The save outcomes that are failures.
Failures(evs) == SaveOutcomes(evs) \ {SaveOk}

\* C6 for create: with a failing save the answer is 500 and the created
\* event is in the collection and in the list.
C6_CreateKept(r, data) ==
    /\ r.status = 500
    /\ r.events = Append(events,
            Event(nextId, Strip(data.title.s), Strip(data.description.s),
                  fromisoformat(data.start_time).val, fromisoformat(data.end_time).val))
    /\ Len(list_events(r.events).body) = Len(events) + 1

C6_Create ==
    \A data \in CreateBodiesSmall :
        LET ok == create_event(events, file, nextId, data, SaveOk)
        IN  ok.kind = "ok" =>
                \A out \in Failures(ok.events) :
                    C6_CreateKept(create_event(events, file, nextId, data, out), data)

\* C6 for update: the answer is 500 and every supplied field is applied.
C6_UpdateKept(r, i, data) ==
    /\ r.status = 500
    /\ Len(r.events) = Len(events)
    /\ Has(data, "title") => r.events[i].title = Strip(data.title.s)
    /\ Has(data, "start_time") =>
            r.events[i].start_time = fromisoformat(data.start_time).val
    /\ Has(data, "end_time") =>
            r.events[i].end_time = fromisoformat(data.end_time).val

C6_Update ==
    \A id \in Ids(events), data \in UpdateBodiesSmall :
        LET ok == update_event(events, file, nextId, id, data, SaveOk)
        IN  ok.kind = "ok" =>
                \A out \in Failures(ok.events) :
                    C6_UpdateKept(update_event(events, file, nextId, id, data, out),
                                  IndexOf(events, id), data)

\* C6 for delete: the answer is 500 and the event is gone.
C6_DeleteKept(r, id) ==
    /\ r.status = 500
    /\ id \notin Ids(r.events)
    /\ Len(r.events) = Len(events) - 1

C6_Delete ==
    \A id \in Ids(events) :
        \A out \in Failures(Pop(events, IndexOf(events, id))) :
            C6_DeleteKept(delete_event(events, file, nextId, id, out), id)

\* C6: a failing save is answered 500 and the in-memory mutation stays.
C6_NoRollback ==
    /\ C6_Create /\ C6_Update /\ C6_Delete
    /\ last.kind = "save" => last.status = 500

\* C6 witness: a delete whose save failed, after which the event is gone
\* from memory while the file still holds it.
C6_Witness ==
    /\ last.op = "delete" /\ last.kind = "save"
    /\ events = <<>> /\ file.st = "array" /\ Len(file.recs) = 1

\* Position of the event with this id in the collection.
PosOf(evs, id) == CHOOSE i \in 1..Len(evs) : evs[i].id = id

\* C7: the list response holds every event once, ascending by
\* start_time, equal start_times in creation order.
C7_ListOrdering ==
    LET r == list_events(events)
    IN  /\ r.status = 200
        /\ Len(r.body) = Len(events)
        /\ \A i \in 1..Len(events) :
                Cardinality({p \in 1..Len(r.body) : r.body[p].id = events[i].id}) = 1
        /\ \A p, q \in 1..Len(r.body) :
                p < q =>
                    /\ r.body[p].start_time.t <= r.body[q].start_time.t
                    /\ r.body[p].start_time.t = r.body[q].start_time.t =>
                            PosOf(events, r.body[p].id) < PosOf(events, r.body[q].id)

\* C8: in every state reached from load_events at startup and any
\* requests, a list request answers 200.
C8_ListNeverFails == list_events(events).status = 200

\* A time value the create contract rejects: not a str, or a text that
\* is no ISO-8601 time.
NotATime(v) == ~IsStr(v) \/ ~IsIsoText(v)

\* The bodies C9 calls invalid.
InvalidForCreate(data) ==
    \/ \E k \in {"title", "description", "start_time", "end_time"} : ~Has(data, k)
    \/ NotATime(data.start_time) \/ NotATime(data.end_time)
    \/ GE(fromisoformat(data.start_time).val, fromisoformat(data.end_time).val) = "True"

\* C9: every invalid create body is answered 400 and changes nothing.
C9_CreateRejectsInvalid ==
    \A data \in CreateBodies :
        InvalidForCreate(data) =>
            LET r == create_event(events, file, nextId, data, SaveOk)
            IN  r.status = 400 /\ r.events = events /\ r.file = file

\* C10: a delete of an id that matches no event answers 404 and changes
\* neither the collection nor the file, whatever the environment does.
C10_DeleteAbsent ==
    \A id \in RequestIds \ Ids(events), out \in SaveOutcomes(events) :
        LET r == delete_event(events, file, nextId, id, out)
        IN  r.status = 404 /\ r.events = events /\ r.file = file

\* C10 witness: the second delete of an id just deleted answered 404.
C10_Witness ==
    /\ last.op = "delete" /\ last.status = 404
    /\ events = <<>> /\ nextId = 2 /\ requests = 3

\* The update bodies C11 and C12 are about: not the empty object, and
\* accepted by validate_event_data.
ValidUpdateBody(data) ==
    ~IsEmptyBody(data) /\ validate_event_data(data, TRUE).valid

\* The answer to an update of an id no event has.
C11_Absent(r) == r.status = 404 /\ r.events = events /\ r.file = file

\* C11: an update with a valid non-empty body of an id that matches no
\* event answers 404 and changes neither the collection nor the file.
C11_UpdateAbsent ==
    \A id \in RequestIds \ Ids(events), data \in MergeBodies :
        ValidUpdateBody(data) =>
            C11_Absent(update_event(events, file, nextId, id, data, SaveOk))

\* C11 witness: an update answered 404 while another event is stored.
C11_Witness ==
    last.op = "update" /\ last.status = 404 /\ Len(events) = 1

\* A field the body supplies: the key is there and, for a time (line 110),
\* its value is not JSON null.
Supplied(data, k) ==
    Has(data, k) /\ (k \in {"start_time", "end_time"} => data[k].ty # "NoneType")

\* The successful update r of the event at index i is a merge with a frame.
C12_Merged(r, i, data) ==
    /\ Len(r.events) = Len(events)
    /\ \A j \in 1..Len(events) : j # i => r.events[j] = events[j]
    /\ r.events[i].id = events[i].id
    /\ r.events[i].title =
            IF Supplied(data, "title") THEN Strip(data.title.s) ELSE events[i].title
    /\ r.events[i].description =
            IF Supplied(data, "description") THEN Strip(data.description.s)
            ELSE events[i].description
    /\ r.events[i].start_time =
            IF Supplied(data, "start_time") THEN fromisoformat(data.start_time).val
            ELSE events[i].start_time
    /\ r.events[i].end_time =
            IF Supplied(data, "end_time") THEN fromisoformat(data.end_time).val
            ELSE events[i].end_time

C13_IdsDistinct ==
    /\ \A i, j \in 1..Len(events) : i # j => events[i].id # events[j].id
    /\ \A id \in RequestIds :
            Cardinality({i \in 1..Len(events) : events[i].id = id}) <= 1

\* C13 witness: two creates succeeded and both events are stored.
C13_Witness ==
    last.op = "create" /\ last.status = 201 /\ Len(events) = 2 /\ requests = 2

\* C14: saving a collection of events with parsed times and loading the
\* file gives the same events in the same order; loading a file that
\* save_events wrote and saving again gives the same file.
C14_RoundTrip ==
    /\ (\A i \in 1..Len(events) :
            IsDatetime(events[i].start_time) /\ IsDatetime(events[i].end_time))
        => load_events(save_events(events, file, SaveOk).file, nextId).events = events
    /\ file.st = "array"
        => save_events(load_events(file, nextId).events, file, SaveOk).file = file

\* C14 witness: a written file with two events, one of them offset-aware.
C14_Witness ==
    /\ file.st = "array" /\ Len(file.recs) = 2 /\ Len(events) = 2
    /\ events[1].start_time.aware /\ ~events[2].start_time.aware

\* The file states C16 names: no file, zero bytes, malformed JSON.
NoCollection == {"absent", "empty", "partial"}

\* C16: load_events returns the empty collection when the file is absent,
\* empty or malformed, and a start or restart from such a file leaves the
\* process with the empty collection.
C16_LoadDegrades ==
    /\ file.st \in NoCollection => load_events(file, nextId).events = <<>>
    /\ (last.op \in {"start", "restart"} /\ file.st \in NoCollection) => events = <<>>

\* C16 witness: a restart from a file that a failed save cut after its
\* first record.
C16_Witness ==
    /\ last.op = "restart" /\ events = <<>>
    /\ file.st = "partial" /\ Len(file.recs) = 1

\* An event record: it has both time keys (with any value).
IsEventRecord(r) == r.start_time.ty # "missing" /\ r.end_time.ty # "missing"

\* The loaded event e is the record r: same id (a fresh one if r had
\* none), same title and description, each time parsed or as it was.
Kept(r, e) ==
    /\ r.id # NoId => e.id = r.id
    /\ e.id # NoId
    /\ e.title = r.title /\ e.description = r.description
    /\ e.start_time \in {r.start_time, fromisoformat(r.start_time).val}
    /\ e.end_time \in {r.end_time, fromisoformat(r.end_time).val}

\* C17: from a file that is a JSON array of event records, load_events
\* returns one event per record, in order, also for records whose
\* start_time or end_time does not parse.
C17_LoadKeepsRecords ==
    (file.st = "array" /\ \A i \in 1..Len(file.recs) : IsEventRecord(file.recs[i]))
        => LET l == load_events(file, nextId).events
           IN  /\ Len(l) = Len(file.recs)
               /\ \A i \in 1..Len(l) : Kept(file.recs[i], l[i])

\* C17 witness: the process started from a file of two records, the first
\* with a start_time that does not parse, and holds both.
C17_Witness ==
    /\ last.op = "start" /\ Len(events) = 2
    /\ events[1].start_time = Str("garbage") /\ IsDatetime(events[2].start_time)

C18_Rejected(r) ==
    /\ r.status = 400
    /\ r.msg = <<"Missing required field: 'description'">>
    /\ r.events = events /\ r.file = file

Agree(f, evs) ==
    \/ f = File("array", serializable_events(evs))
    \/ f.st = "absent" /\ evs = <<>>

\* C19: when no save fails, a request answered 200, 201, 400 or 404 that
\* starts with file and memory in agreement ends with them in agreement.
C19_MemoryFileAgree ==
    [][(Agree(file, events) /\ last'.op \in Mutating \cup {"list"}
            /\ last'.status \in {200, 201, 400, 404})
        => Agree(file', events')]_vars

\* C15: every event in the response of a list that ran beside updates is
\* in a state from before or from after an update, never one with only
\* part of an update's assignments or with those of a rejected update.
C15_ListSeesWholeEvents ==
    \A t \in Threads :
        (threads[t].op = "list" /\ threads[t].pc = "done" /\ threads[t].status = 200)
            => \A k \in 1..Len(threads[t].body) :
                    \E e \in threads[t].legit : threads[t].body[k] = response_event(e)

\* C20: a delete removes the event with the id of its request, and no
\* delete ends with an IndexError.
C20_DeleteRemovesRequested ==
    \A t \in Threads :
        threads[t].op = "delete" =>
            /\ threads[t].kind # "IndexError"
            /\ threads[t].removed # NoId => threads[t].removed = threads[t].id

====
